---- MODULE Spec2Model ----
(***************************************************************************)
(* Model of pkg/agents/chatcompletion/tokens.go: countPromptTokens, the    *)
(* estimate of the prompt tokens of a chat completion request.             *)
(*                                                                         *)
(* Strings are TLA+ strings (Len, SubSeq and \o act on them).  The Go      *)
(* error values are modelled by their messages, NoError standing for nil.  *)
(* The request is modelled by the JSON document json.Marshal makes of it:  *)
(* every request of the universe was itself decoded from JSON, so          *)
(* json.Marshal succeeds on it; json.Unmarshal into tokenRequest is what   *)
(* can fail.  The tokenizer library is modelled by its model tables and by *)
(* byte-pair merging over a small vocabulary; its dictionaries are taken   *)
(* to be loadable.                                                         *)
(***************************************************************************)
EXTENDS Integers, Sequences, FiniteSets, TLC

\* model, cc : the arguments of the caller's countPromptTokens(model, cc)
\* calls     : the model argument of every invocation so far, the caller's
\*             first, the running (or last returned) invocation's last
\* acquired  : the model strings tiktoken.EncodingForModel was called with
\* out       : the (count, error) returned to the caller
\* pc        : "call" while an invocation is running, "done" after the return
VARIABLES model, cc, calls, acquired, out, pc

vars == <<model, cc, calls, acquired, out, pc>>

(***************************************************************************)
(* Bounds.                                                                 *)
(***************************************************************************)
MaxMsgs == 2

MaxDepth == 3

(***************************************************************************)
(* strings                                                                 *)
(***************************************************************************)
Contains(s, substr) ==
    \E i \in 1..(Len(s) - Len(substr) + 1) : SubSeq(s, i, i + Len(substr) - 1) = substr

HasPrefix(s, prefix) ==
    Len(s) >= Len(prefix) /\ SubSeq(s, 1, Len(prefix)) = prefix

NoError == "<nil>"

(***************************************************************************)
(* tiktoken: the encoding of a model, and the number of tokens of a text.  *)
(***************************************************************************)
MODEL_TO_ENCODING ==
    [m \in {"gpt-4", "gpt-3.5-turbo", "text-davinci-003"} |->
        IF m = "text-davinci-003" THEN "p50k_base" ELSE "cl100k_base"]

MODEL_PREFIX_TO_ENCODING ==
    [p \in {"gpt-4-", "gpt-3.5-turbo-"} |-> "cl100k_base"]

\* tiktoken.EncodingForModel: the exact table, then the prefix table.
EncodingForModel(m) ==
    IF m \in DOMAIN MODEL_TO_ENCODING
    THEN [tkm |-> MODEL_TO_ENCODING[m], err |-> NoError]
    ELSE IF \E p \in DOMAIN MODEL_PREFIX_TO_ENCODING : HasPrefix(m, p)
    THEN [tkm |-> MODEL_PREFIX_TO_ENCODING[
                     CHOOSE p \in DOMAIN MODEL_PREFIX_TO_ENCODING : HasPrefix(m, p)],
          err |-> NoError]
    ELSE [tkm |-> "", err |-> "no encoding for model " \o m]

\* The merges of an encoding, lowest rank first.
Ranks(tkm) ==
    IF tkm = "cl100k_base"
    THEN <<"us", "er", "user", "hi", "bo", "al">>
    ELSE <<"er", "hi", "ob">>

\* The rank of a piece: its place among the merges, 0 when it is none.
Rank(tkm, piece) ==
    IF \E k \in DOMAIN Ranks(tkm) : Ranks(tkm)[k] = piece
    THEN CHOOSE k \in DOMAIN Ranks(tkm) : Ranks(tkm)[k] = piece
    ELSE 0

\* Byte-pair merging: merge the adjacent pair of lowest rank (the leftmost
\* of them) until no adjacent pair is a merge of the encoding.
RECURSIVE BytePairMerge(_, _)
BytePairMerge(tkm, parts) ==
    LET pairs == 1..(Len(parts) - 1)
        rankAt(i) == Rank(tkm, parts[i] \o parts[i + 1])
    IN  IF \A i \in pairs : rankAt(i) = 0
        THEN parts
        ELSE LET i == CHOOSE j \in pairs :
                        /\ rankAt(j) # 0
                        /\ \A k \in pairs : \/ rankAt(k) = 0
                                            \/ rankAt(j) < rankAt(k)
                                            \/ (rankAt(j) = rankAt(k) /\ j <= k)
             IN  BytePairMerge(tkm,
                     SubSeq(parts, 1, i - 1)
                       \o <<parts[i] \o parts[i + 1]>>
                       \o SubSeq(parts, i + 2, Len(parts)))

\* The texts the requests of the universe hold, and the encodings.
Texts == {"", "al", "bob", "hi", "user"}

Encodings == {"cl100k_base", "p50k_base"}

\* Every text's tokens under every encoding, computed once.
Encoded ==
    [tkm \in Encodings, s \in Texts |->
        BytePairMerge(tkm, [i \in 1..Len(s) |-> SubSeq(s, i, i)])]

\* tkm.Encode(s, nil, nil)
Encode(tkm, s) == Encoded[tkm, s]

\* count := func(s string) int { return len(tkm.Encode(s, nil, nil)) }
count(tkm, s) == Len(Encode(tkm, s))

(***************************************************************************)
(* The request, as the JSON document json.Marshal makes of it.  A JSON     *)
(* value is a string, null (an absent key decodes the same way) or an      *)
(* array (a message's content given as a list of content parts).           *)
(***************************************************************************)
JString(s) == [t |-> "string", v |-> s]

JNull == [t |-> "null", v |-> ""]

JArray == [t |-> "array", v |-> ""]

Names == {JNull, JString("bob")}

Roles == {JString(""), JString("user")}

Contents == {JNull, JString("hi"), JArray}

ToolCalls == {"", "call_1"}

Tools == {<<>>, <<"get_weather">>}

Messages == [name : Names, role : Roles, content : Contents, tool_calls : ToolCalls]

RECURSIVE SeqsUpTo(_, _)
SeqsUpTo(S, n) ==
    IF n = 0 THEN {<<>>}
    ELSE LET shorter == SeqsUpTo(S, n - 1)
         IN  shorter \cup {Append(q, x) : q \in {q \in shorter : Len(q) = n - 1}, x \in S}

\* *db.CreateChatCompletionRequest: nil, or a request.
NilRequest == [nil |-> TRUE]

Requests == [nil : {FALSE}, messages : SeqsUpTo(Messages, MaxMsgs), tools : Tools]

(***************************************************************************)
(* toTokenRequest: json.Marshal, then json.Unmarshal into tokenRequest.    *)
(***************************************************************************)
\* json.Marshal(from): a nil pointer marshals to null.
Marshal(from) ==
    IF from = NilRequest THEN [t |-> "null"]
    ELSE [t |-> "object", messages |-> from.messages, tools |-> from.tools]

\* A JSON value decoded into a Go string field: a string is stored, null
\* leaves the field at its zero value, any other value is a type error.
UnmarshalString(j) ==
    IF j.t = "string" THEN [v |-> j.v, err |-> NoError]
    ELSE IF j.t = "null" THEN [v |-> "", err |-> NoError]
    ELSE [v |-> "", err |-> "json: cannot unmarshal " \o j.t \o " into Go value of type string"]

\* tokenMessage: the name, role and content keys; every other key is dropped.
UnmarshalMessage(j) ==
    LET n == UnmarshalString(j.name)
        r == UnmarshalString(j.role)
        c == UnmarshalString(j.content)
        bad == {e \in {n.err, r.err, c.err} : e # NoError}
    IN  [msg |-> [Name |-> n.v, Role |-> r.v, Content |-> c.v],
         err |-> IF bad = {} THEN NoError ELSE CHOOSE e \in bad : TRUE]

\* tokenRequest: the messages key; every other key (tools) is dropped.
toTokenRequest(from) ==
    LET data == Marshal(from)
    IN  IF data.t = "null" THEN [req |-> [Messages |-> <<>>], err |-> NoError]
        ELSE LET got == [i \in DOMAIN data.messages |-> UnmarshalMessage(data.messages[i])]
                 bad == {i \in DOMAIN got : got[i].err # NoError}
             IN  IF bad # {}
                 THEN [req |-> [Messages |-> <<>>],
                       err |-> got[CHOOSE i \in bad : \A k \in bad : i <= k].err]
                 ELSE [req |-> [Messages |-> [i \in DOMAIN got |-> got[i].msg]],
                       err |-> NoError]

(***************************************************************************)
(* countPromptTokens                                                       *)
(***************************************************************************)
\* The nil check left out.
isNilUnchecked(r) == FALSE

\* if cc == nil
isNil(r) == r = NilRequest

\* A failure that returns -1 for the count.
FailMinusOne(msg) == [kind |-> "return", count |-> -1, err |-> msg, model |-> ""]

\* return 0, fmt.Errorf(...)
Fail(msg) == [kind |-> "return", count |-> 0, err |-> msg, model |-> ""]

\* return tokens, nil
Succeed(tokens) == [kind |-> "return", count |-> tokens, err |-> NoError, model |-> ""]

\* return countPromptTokens(m, cc)
Recurse(m) == [kind |-> "recurse", count |-> 0, err |-> NoError, model |-> m]

\* The cases of the switch that set fixedCost.message and fixedCost.name.
ExactModels ==
    {"gpt-3.5-turbo-0613", "gpt-3.5-turbo-16k-0613", "gpt-4-0314",
     "gpt-4-32k-0314", "gpt-4-0613", "gpt-4-32k-0613", "gpt-3.5-turbo-0301"}

\* The legacy case folded into the first one.
fixedCostOneProfile(m) ==
    [message |-> 3, name |-> 1, tools |-> 12, toolParameters |-> 11]

\* fixedCost after the switch, for a model of ExactModels.
fixedCostFor(m) ==
    IF m = "gpt-3.5-turbo-0301"
    THEN [message |-> 4, name |-> -1, tools |-> 12, toolParameters |-> 11]
    ELSE [message |-> 3, name |-> 1, tools |-> 12, toolParameters |-> 11]

\* The recursive call made with the family's name instead of a dated model.
fallbackFamily(m) ==
    IF Contains(m, "gpt-3.5-turbo") THEN "gpt-3.5-turbo"
    ELSE IF Contains(m, "gpt-4") THEN "gpt-4"
    ELSE ""

\* The default case: the model the call recurses with, "" when there is none.
fallbackModel(m) ==
    IF Contains(m, "gpt-3.5-turbo") THEN "gpt-3.5-turbo-0613"
    ELSE IF Contains(m, "gpt-4") THEN "gpt-4-0613"
    ELSE ""

\* The name's tokens left out of the round.
messageTokensNoName(tkm, fixedCost, msg) ==
    fixedCost.message
      + count(tkm, msg.Content) + count(tkm, msg.Role)
      + (IF msg.Name # "" THEN fixedCost.name ELSE 0)

\* fixedCost.name added whether or not the message has a name.
messageTokensNameAlways(tkm, fixedCost, msg) ==
    fixedCost.message
      + count(tkm, msg.Content) + count(tkm, msg.Role) + count(tkm, msg.Name)
      + fixedCost.name

\* One round of the loop over req.Messages: what msg adds to tokens.
messageTokens(tkm, fixedCost, msg) ==
    fixedCost.message
      + count(tkm, msg.Content) + count(tkm, msg.Role) + count(tkm, msg.Name)
      + (IF msg.Name # "" THEN fixedCost.name ELSE 0)

\* for _, msg := range req.Messages, from message i on, tokens so far.
RECURSIVE sumMessages(_, _, _, _, _)
sumMessages(tkm, fixedCost, msgs, i, tokens) ==
    IF i > Len(msgs) THEN tokens
    ELSE sumMessages(tkm, fixedCost, msgs, i + 1,
                     tokens + messageTokens(tkm, fixedCost, msgs[i]))

\* The commented-out sum switched on: fixedCost.tools for a request with tools.
toolTokensCounted(fixedCost, from) ==
    IF from.tools # <<>> THEN fixedCost.tools ELSE 0

\* The sum over the function definitions: commented out, it adds nothing.
toolTokens(fixedCost, from) == 0

\* The body of one invocation: what it returns, or the call it returns the
\* result of.
countPromptTokensBody(m, r) ==
    IF isNil(r) THEN Fail("nil request, can't count tokens")
    ELSE LET enc == EncodingForModel(m)
         IN  IF enc.err # NoError
             THEN Fail("failed to get encoding for model " \o m \o ": " \o enc.err)
             ELSE IF m \notin ExactModels
             THEN IF fallbackModel(m) # ""
                  THEN Recurse(fallbackModel(m))
                  ELSE Fail("token counting method for model " \o m \o " is unknown")
             ELSE LET fixedCost == fixedCostFor(m)
                      conv == toTokenRequest(r)
                  IN  IF conv.err # NoError
                      THEN Fail("failed to convert chat completion request to token counting request: "
                                  \o conv.err)
                      ELSE Succeed(sumMessages(enc.tkm, fixedCost, conv.req.Messages, 1, 0)
                                     + toolTokens(fixedCost, r))

\* countPromptTokens(m, r) as a function of its arguments: the (count, error)
\* it returns, at most `fuel` invocations deep.
RECURSIVE countPromptTokensN(_, _, _)
countPromptTokensN(m, r, fuel) ==
    LET b == countPromptTokensBody(m, r)
    IN  IF b.kind = "recurse"
        THEN IF fuel = 0 THEN [count |-> 0, err |-> "<no return>"]
             ELSE countPromptTokensN(b.model, r, fuel - 1)
        ELSE [count |-> b.count, err |-> b.err]

countPromptTokens(m, r) == countPromptTokensN(m, r, MaxDepth)

(***************************************************************************)
(* The calls.                                                              *)
(***************************************************************************)
Models ==
    ExactModels \cup
    {"gpt-3.5-turbo", "gpt-4", "gpt-4-gpt-3.5-turbo", "my-gpt-4",
     "text-davinci-003", "totally-unknown-model"}

Pending == [count |-> 0, err |-> "<pending>"]

Init ==
    /\ model \in Models
    /\ cc \in Requests \cup {NilRequest}
    /\ calls = <<model>>
    /\ acquired = <<>>
    /\ out = Pending
    /\ pc = "call"

\* The running invocation up to its return statement.
Running == calls[Len(calls)]

Acquire == IF isNil(cc) THEN acquired ELSE Append(acquired, Running)

\* The invocation ends in `return countPromptTokens(..., cc)`: the callee starts.
Call ==
    LET b == countPromptTokensBody(Running, cc)
    IN  /\ pc = "call"
        /\ b.kind = "recurse"
        /\ Len(calls) < MaxDepth
        /\ acquired' = Acquire
        /\ calls' = Append(calls, b.model)
        /\ UNCHANGED <<model, cc, out, pc>>

\* The invocation returns a count and an error, which every invocation
\* above it returns unchanged.
Return ==
    LET b == countPromptTokensBody(Running, cc)
    IN  /\ pc = "call"
        /\ b.kind = "return"
        /\ acquired' = Acquire
        /\ out' = [count |-> b.count, err |-> b.err]
        /\ pc' = "done"
        /\ UNCHANGED <<model, cc, calls>>

Next == Call \/ Return

Spec == Init /\ [][Next]_vars

(***************************************************************************)
(* Properties.                                                             *)
(***************************************************************************)
Done == pc = "done"

NilRequestError == "nil request, can't count tokens"

UnknownModelError(m) == "token counting method for model " \o m \o " is unknown"

IsEncodingError(e) == HasPrefix(e, "failed to get encoding for model ")

IsConvertError(e) ==
    HasPrefix(e, "failed to convert chat completion request to token counting request: ")

\* The string a JSON value leaves in a normalized message.
Normalized(j) == IF j.t = "string" THEN j.v ELSE ""

\* The number of tokens of a text for the models of the switch.
tokenCount(s) == count("cl100k_base", s)

\* C1: for a non-nil request and a model outside the seven exact cases, a
\* model that contains "gpt-3.5-turbo" gets the outcome of
\* "gpt-3.5-turbo-0613", and otherwise one that contains "gpt-4" gets the
\* outcome of "gpt-4-0613".
C1_AliasAsCanonical ==
    (Done /\ cc # NilRequest /\ model \notin ExactModels) =>
        /\ Contains(model, "gpt-3.5-turbo") =>
              out = countPromptTokens("gpt-3.5-turbo-0613", cc)
        /\ (~Contains(model, "gpt-3.5-turbo") /\ Contains(model, "gpt-4")) =>
              out = countPromptTokens("gpt-4-0613", cc)

\* C2: for a non-nil request, a model outside the exact cases that contains
\* neither "gpt-3.5-turbo" nor "gpt-4" gets a count of 0 and the error
\* "token counting method for model ... is unknown" naming it.
C2_UnknownModelError ==
    (/\ Done
     /\ cc # NilRequest
     /\ model \notin ExactModels
     /\ ~Contains(model, "gpt-3.5-turbo")
     /\ ~Contains(model, "gpt-4")) =>
        out = [count |-> 0, err |-> UnknownModelError(model)]

\* C3: for every model, a nil request gets a count of 0 and the "nil
\* request" error, before the tokenizer or the model table is consulted.
C3_NilRequestFirst ==
    (Done /\ cc = NilRequest) =>
        /\ out = [count |-> 0, err |-> NilRequestError]
        /\ acquired = <<>>
        /\ calls = <<model>>

C3_Witness ==
    /\ Done
    /\ cc = NilRequest
    /\ model = "totally-unknown-model"
    /\ EncodingForModel(model).err # NoError

\* What C4 says one normalized message adds.
C4_Term(message, name, j) ==
    message
      + tokenCount(Normalized(j.content))
      + tokenCount(Normalized(j.role))
      + tokenCount(Normalized(j.name))
      + (IF Normalized(j.name) # "" THEN name ELSE 0)

RECURSIVE C4_Sum(_, _, _)
C4_Sum(message, name, msgs) ==
    IF msgs = <<>> THEN 0
    ELSE C4_Term(message, name, Head(msgs)) + C4_Sum(message, name, Tail(msgs))

\* C4: a successful call returns the sum, over the normalized messages, of
\* fixedCost.message, the tokens of content, role and name, and
\* fixedCost.name when the name is not empty, with {4, -1} for
\* "gpt-3.5-turbo-0301" and {3, 1} otherwise; no messages give 0.
C4_CountIsSum ==
    (Done /\ out.err = NoError) =>
        /\ out.count = IF model = "gpt-3.5-turbo-0301"
                       THEN C4_Sum(4, -1, cc.messages)
                       ELSE C4_Sum(3, 1, cc.messages)
        /\ cc.messages = <<>> => out.count = 0

C4_Witness ==
    /\ Done
    /\ out.err = NoError
    /\ model = "gpt-3.5-turbo-0301"
    /\ Len(cc.messages) = 2
    /\ \E i \in DOMAIN cc.messages : Normalized(cc.messages[i].name) # ""
    /\ \E i \in DOMAIN cc.messages :
          /\ Normalized(cc.messages[i].name) = ""
          /\ Normalized(cc.messages[i].role) = ""
          /\ Normalized(cc.messages[i].content) = ""
    /\ out.count # 4 * Len(cc.messages)

\* The request r with message i given the name n.
WithName(r, i, n) == [r EXCEPT !.messages[i].name = JString(n)]

C5_NewNames == {"al", "bob"}

\* C5, as claimed: under "gpt-3.5-turbo-0301", giving a name to a message
\* that has none lowers the returned count by exactly 1.
C5_NameLowersByOne ==
    (Done /\ cc # NilRequest /\ model = "gpt-3.5-turbo-0301") =>
        \A i \in DOMAIN cc.messages : \A n \in C5_NewNames :
            Normalized(cc.messages[i].name) = "" =>
                countPromptTokens(model, WithName(cc, i, n)).count = out.count - 1

\* C5, amended: under "gpt-3.5-turbo-0301", when the call succeeds, giving a
\* name to a message that has none changes the returned count by the
\* tokens of the name less 1, and the call still succeeds.
C5_NameAddsItsTokensLessOne ==
    (Done /\ out.err = NoError /\ model = "gpt-3.5-turbo-0301") =>
        \A i \in DOMAIN cc.messages : \A n \in C5_NewNames :
            Normalized(cc.messages[i].name) = "" =>
                countPromptTokens(model, WithName(cc, i, n))
                  = [count |-> out.count + tokenCount(n) - 1, err |-> NoError]

C5_Witness ==
    /\ Done
    /\ out.err = NoError
    /\ model = "gpt-3.5-turbo-0301"
    /\ \E i \in DOMAIN cc.messages :
          /\ Normalized(cc.messages[i].name) = ""
          /\ countPromptTokens(model, WithName(cc, i, "bob")).count = out.count + 1
          /\ countPromptTokens(model, WithName(cc, i, "al")).count = out.count

\* C6: whenever the returned error is not nil the returned count is 0, on
\* every failure path and through the recursive call as well.
C6_ErrorMeansZero ==
    (Done /\ out.err # NoError) => out.count = 0

C6_Witness ==
    /\ Done
    /\ IsConvertError(out.err)
    /\ Len(calls) = 2
    /\ Len(cc.messages) = 2
    /\ cc.messages[1].content = JString("hi")
    /\ cc.messages[2].content = JArray

\* The requests with the (name, role, content) sequence of r.
C7_Variants(r) ==
    {[r EXCEPT !.tools = t,
               !.messages = [i \in DOMAIN r.messages |->
                               [r.messages[i] EXCEPT !.tool_calls = f[i]]]] :
        t \in Tools, f \in [DOMAIN r.messages -> ToolCalls]}

C8_Resolved(m) == IF m \in ExactModels THEN m ELSE fallbackModel(m)

\* C8: the tokenizer is asked for resolved identifiers only, and the
\* "failed to get encoding" error is returned only when the tokenizer of
\* the resolved identifier cannot be obtained.
C8_EncodingOfResolvedOnly ==
    Done =>
        /\ \A i \in DOMAIN acquired : acquired[i] = C8_Resolved(model)
        /\ IsEncodingError(out.err) =>
              EncodingForModel(C8_Resolved(model)).err # NoError

\* C9: a call makes at most one recursive call, with "gpt-3.5-turbo-0613" or
\* "gpt-4-0613", which is an exact case and returns without recursing: no
\* call runs more than two invocations.
C9_RecursionDepthOne ==
    /\ Len(calls) <= 2
    /\ \A i \in 2..Len(calls) :
          /\ calls[i] \in {"gpt-3.5-turbo-0613", "gpt-4-0613"}
          /\ calls[i] \in ExactModels
          /\ countPromptTokensBody(calls[i], cc).kind = "return"
    /\ Done => Len(acquired) <= Len(calls)

C9_Witness ==
    /\ Done
    /\ Len(calls) = 2
    /\ calls[2] = "gpt-3.5-turbo-0613"
    /\ Contains(model, "gpt-4")
    /\ out.err = NoError

\* C10: a successful call returns a count that is not negative and is at
\* least fixedCost.message for each message: 4 under "gpt-3.5-turbo-0301",
\* 3 otherwise.
C10_CountAtLeastMessages ==
    (Done /\ out.err = NoError) =>
        /\ out.count >= 0
        /\ out.count >= (IF model = "gpt-3.5-turbo-0301" THEN 4 ELSE 3) * Len(cc.messages)

C10_Witness ==
    /\ Done
    /\ out.err = NoError
    /\ model = "gpt-3.5-turbo-0301"
    /\ Len(cc.messages) = 2
    /\ \A i \in DOMAIN cc.messages : Normalized(cc.messages[i].name) # ""
    /\ out.count >= 4 * Len(cc.messages)

====
